---- MODULE Spec2Model ----
(***************************************************************************)
(* A model of the UTXO chaincode in src/go/chaincode.go: the world state   *)
(* as an ordered key-value store, the genesis operation initState, the     *)
(* transfer operation transferUTXO and the five read-only queries.         *)
(*                                                                         *)
(* Strings of the program are modelled as follows.                         *)
(*  - A transaction id is a number in TxIds (Fabric ids are fixed-length   *)
(*    hex strings, so ids order as the numbers do); NoTx is the empty      *)
(*    string.                                                              *)
(*  - A store key is [txid, sep, index]: the text txid, then ":" and index *)
(*    when sep is TRUE.  strings.Contains(key, ":") is the field sep.      *)
(*  - An amount text is [k, v]: k = "dec" is a decimal numeral written by  *)
(*    the caller, worth v thousandths ("20" is v = 20000, "-0.006" is      *)
(*    v = -6); k = "f2" is a numeral with exactly two decimals as          *)
(*    strconv.FormatFloat(x, 'f', 2, 64) writes it, worth v hundredths;    *)
(*    k = "nan" is "NaN"; k = "bad" is a text that is no number ("abc");   *)
(*    k = "empty" is "".                                                   *)
(*  - A float64 is [nan, v]: not-a-number, or v thousandths.               *)
(*  - A JSON object is a record of its members; "{}" is the empty          *)
(*    function.                                                            *)
(***************************************************************************)
EXTENDS Integers, Sequences, FiniteSets, TLC

\* ---------------------------------------------------------------- bounds
MaxTx == 2

TxIds == 1..MaxTx

NoTx == 0

Addresses == {"User A", "User B"}

\* ---------------------------------------------------------- amount texts
Dec(m) == [k |-> "dec", v |-> m]

F2(c) == [k |-> "f2", v |-> c]

NaNText == [k |-> "nan", v |-> 0]

BadText == [k |-> "bad", v |-> 0]

EmptyText == [k |-> "empty", v |-> 0]

\* The amount arguments a caller passes: "0", "20", "60", "-0.006", "NaN"
\* and "abc".
AmountArgs == {Dec(0), Dec(20000), Dec(60000), Dec(0 - 6), NaNText, BadText}

Num(m) == [nan |-> FALSE, v |-> m]

NaN == [nan |-> TRUE, v |-> 0]

\* strconv.ParseFloat(s, 64) with the error discarded: a text that is no
\* number yields 0, "NaN" yields NaN.
ParseFloat(s) ==
    CASE s.k = "dec" -> Num(s.v)
      [] s.k = "f2" -> Num(10 * s.v)
      [] s.k = "nan" -> NaN
      [] OTHER -> Num(0)

\* float64 comparison and arithmetic: every comparison with NaN is false.
FLess(a, b) == ~a.nan /\ ~b.nan /\ a.v < b.v

FAdd(a, b) == IF a.nan \/ b.nan THEN NaN ELSE Num(a.v + b.v)

FSub(a, b) == IF a.nan \/ b.nan THEN NaN ELSE Num(a.v - b.v)

\* The nearest hundredth of m thousandths.  (FormatFloat rounds the exact
\* binary value, so a decimal half goes either way; halves here go away from
\* zero, and no amount in AmountArgs produces one.)
RoundCenti(m) ==
    IF m >= 0 THEN (m + 5) \div 10 ELSE 0 - ((5 - m) \div 10)

\* strconv.FormatFloat(x, 'f', 2, 64).
FormatFloat2(x) == IF x.nan THEN NaNText ELSE F2(RoundCenti(x.v))

\* ------------------------------------------------------------- records
\* strconv.Itoa(math.MaxUint32)
MaxUint32Text == "4294967295"

makeUTXO(txid, index, amount, address, inOrOut) ==
    [Txid |-> txid, Index |-> index, Amount |-> amount, Address |-> address,
     inOrOut |-> inOrOut]

\* The zero value of the struct UTXO.
ZeroUTXO == makeUTXO(NoTx, "", EmptyText, "", "")

makeTransaction(id, inputs, outputs) ==
    [id |-> id, inputs |-> inputs, outputs |-> outputs]

\* json.Marshal of a UTXO: the exported fields only; inOrOut is unexported
\* and is not written.
MarshalUTXO(u) ==
    [txid |-> u.Txid, index |-> u.Index, amount |-> u.Amount, address |-> u.Address]

\* json.Marshal of a Transaction: every field is unexported, the text is "{}".
MarshalTransaction(tx) == <<>>

\* json.Unmarshal(bytes, &utxo) into a zero UTXO: each exported field is set
\* from the member of its name, if any; inOrOut is never set.
UnmarshalUTXO(b) ==
    [Txid |-> IF "txid" \in DOMAIN b THEN b.txid ELSE NoTx,
     Index |-> IF "index" \in DOMAIN b THEN b.index ELSE "",
     Amount |-> IF "amount" \in DOMAIN b THEN b.amount ELSE EmptyText,
     Address |-> IF "address" \in DOMAIN b THEN b.address ELSE "",
     inOrOut |-> ""]

\* ---------------------------------------------------------------- keys
TxKey(txid) == [txid |-> txid, sep |-> FALSE, index |-> ""]

\* txid + ":" + utxo.Index
UtxoKey(txid, index) == [txid |-> txid, sep |-> TRUE, index |-> index]

\* strings.Contains(key, ":")
ContainsSep(key) == key.sep

IndexRank(i) ==
    CASE i = "" -> 0
      [] i = "1" -> 1
      [] i = "2" -> 2
      [] OTHER -> 3

\* Ascending (lexical) key order of the range scan.
KeyLess(a, b) ==
    \/ a.txid < b.txid
    \/ /\ a.txid = b.txid
       /\ \/ ~a.sep /\ b.sep
          \/ a.sep /\ b.sep /\ IndexRank(a.index) < IndexRank(b.index)

\* --------------------------------------------------------------- store
EmptyStore == <<>>

PutState(s, key, value) ==
    [x \in DOMAIN s \cup {key} |-> IF x = key THEN value ELSE s[x]]

DelState(s, key) == [x \in DOMAIN s \ {key} |-> s[x]]

\* GetState(key): nil bytes when the key is absent.
GetState(s, key) ==
    IF key \in DOMAIN s THEN [found |-> TRUE, value |-> s[key]]
    ELSE [found |-> FALSE, value |-> <<>>]

RECURSIVE SortKeys(_)
SortKeys(ks) ==
    IF ks = {} THEN <<>>
    ELSE LET m == CHOOSE x \in ks : \A y \in ks \ {x} : KeyLess(x, y)
         IN <<m>> \o SortKeys(ks \ {m})

\* GetStateByRange("", ""): every entry, in ascending key order.
GetStateByRange(s) ==
    LET ks == SortKeys(DOMAIN s)
    IN [i \in 1..Len(ks) |-> [Key |-> ks[i], Value |-> s[ks[i]]]]

\* ----------------------------------------------------------- operations
\* A slip in the ownership check: the address is not compared, and whatever
\* is not marked in counts as out.
checkUTXOOwnerShipDirectionOnly(utxo, address) == utxo.inOrOut # "in"

\* utxo.Address == address && utxo.inOrOut == "out"
checkUTXOOwnerShip(utxo, address) ==
    utxo.Address = address /\ utxo.inOrOut = "out"

\* storeUTXO: PutState(txid + ":" + utxo.Index, json.Marshal(utxo))
storeUTXO(s, txid, utxo) == PutState(s, UtxoKey(txid, utxo.Index), MarshalUTXO(utxo))

\* storeTransaction: PutState(txid, json.Marshal(transaction))
storeTransaction(s, txid, transaction) ==
    PutState(s, TxKey(txid), MarshalTransaction(transaction))

\* initState: what it builds.
InitInputs(txid) == <<makeUTXO(txid, MaxUint32Text, Dec(50000), "Coinbase", "in")>>

InitOutputs(txid) == <<makeUTXO(txid, "1", Dec(50000), "User A", "out")>>

\* initState with a guard against re-invocation, which the code does not have.
initStateStoreOnce(s, txid) ==
    IF s # EmptyStore THEN s
    ELSE storeTransaction(storeUTXO(s, txid, InitOutputs(txid)[1]), txid,
                          makeTransaction(txid, InitInputs(txid), InitOutputs(txid)))

\* initState: the store after its two writes.
initStateStore(s, txid) ==
    storeTransaction(storeUTXO(s, txid, InitOutputs(txid)[1]), txid,
                     makeTransaction(txid, InitInputs(txid), InitOutputs(txid)))

\* The selection loop of transferUTXO, from entry i of the scan on:
\*   for resultsIterator.HasNext() && currValue < amount { ... }
\* acc is [inputs, keys, currValue].
RECURSIVE SelectLoop(_, _, _, _, _)
SelectLoop(entries, i, addrFrom, amount, acc) ==
    IF i > Len(entries) \/ ~FLess(acc.currValue, amount) THEN acc
    ELSE LET utxo == UnmarshalUTXO(entries[i].Value)
         IN IF ~checkUTXOOwnerShip(utxo, addrFrom)
            THEN SelectLoop(entries, i + 1, addrFrom, amount, acc)
            ELSE SelectLoop(entries, i + 1, addrFrom, amount,
                     [inputs |-> Append(acc.inputs, [utxo EXCEPT !.inOrOut = "in"]),
                      keys |-> Append(acc.keys, entries[i].Key),
                      currValue |-> FAdd(acc.currValue, ParseFloat(utxo.Amount))])

Selection(s, addrFrom, amount) ==
    SelectLoop(GetStateByRange(s), 1, addrFrom, amount,
               [inputs |-> <<>>, keys |-> <<>>, currValue |-> Num(0)])

\* A slip in the sufficiency test: the comparison the other way round.
NotEnoughInverted(currValue, amount) == FLess(amount, currValue)

\* if currValue < amount { return shim.Error("No enough amount to spend") }
NotEnough(currValue, amount) == FLess(currValue, amount)

RECURSIVE DelAll(_, _, _)
DelAll(s, keys, i) ==
    IF i > Len(keys) THEN s ELSE DelAll(DelState(s, keys[i]), keys, i + 1)

\* The change output is built only if currValue > amount; otherwise utxo2
\* keeps the zero value of its declaration.
ChangeUTXO(txid, addrFrom, currValue, amount) ==
    IF FLess(amount, currValue)
    THEN makeUTXO(txid, "2", FormatFloat2(FSub(currValue, amount)), addrFrom, "out")
    ELSE ZeroUTXO

TransferOutputs(txid, addrFrom, addrTo, amountText, currValue) ==
    LET utxo1 == makeUTXO(txid, "1", amountText, addrTo, "out")
    IN IF FLess(ParseFloat(amountText), currValue)
       THEN <<utxo1, ChangeUTXO(txid, addrFrom, currValue, ParseFloat(amountText))>>
       ELSE <<utxo1>>

\* storeUTXO(APIstub, txid, utxo1); storeUTXO(APIstub, txid, utxo2)
StoreNewUTXOs(s, txid, utxo1, utxo2) == storeUTXO(storeUTXO(s, txid, utxo1), txid, utxo2)

\* transferUTXO from the end of its selection loop on, sel being what the
\* loop selected: [ok, store, inputs, outputs, removed, currValue].
transferUTXO(s, txid, addrFrom, addrTo, amountText, sel) ==
    IF NotEnough(sel.currValue, ParseFloat(amountText))
    THEN [ok |-> FALSE, store |-> s, inputs |-> <<>>, outputs |-> <<>>,
          removed |-> <<>>, currValue |-> sel.currValue]
    ELSE [ok |-> TRUE,
          store |-> storeTransaction(
                        StoreNewUTXOs(DelAll(s, sel.keys, 1), txid,
                            makeUTXO(txid, "1", amountText, addrTo, "out"),
                            ChangeUTXO(txid, addrFrom, sel.currValue,
                                       ParseFloat(amountText))),
                        txid,
                        makeTransaction(txid, sel.inputs,
                            TransferOutputs(txid, addrFrom, addrTo, amountText,
                                            sel.currValue))),
          inputs |-> sel.inputs,
          outputs |-> TransferOutputs(txid, addrFrom, addrTo, amountText, sel.currValue),
          removed |-> sel.keys, currValue |-> sel.currValue]

\* ------------------------------------------------------- store failures
\* The store operation of an invocation that returns an error: the range
\* scan, the first DelState, the PutState of utxo1, of utxo2 or of the
\* transaction.  An operation that fails writes nothing.
StoreFaults == {"scan", "del", "put1", "put2", "puttx"}

\* initState checks the error of both writes (lines 94-96, 101-103): a failed
\* write makes it return shim.Error, and nothing is committed.
initStateWithFault(s, txid, fault) == [ok |-> FALSE, store |-> s]

\* for _, v := range utfoKeysToRemove { APIstub.DelState(v) }, the error of
\* DelState being dropped: a failed first delete leaves its key in place.
DelAllWithFault(s, keys, fault) ==
    IF fault = "del" THEN DelAll(s, keys, 2) ELSE DelAll(s, keys, 1)

\* storeUTXO(APIstub, txid, utxo1); storeUTXO(APIstub, txid, utxo2), the
\* errors being dropped (lines 420-421).
StoreNewUTXOsWithFault(s, txid, utxo1, utxo2, fault) ==
    LET s1 == IF fault = "put1" THEN s ELSE storeUTXO(s, txid, utxo1)
    IN IF fault = "put2" THEN s1 ELSE storeUTXO(s1, txid, utxo2)

\* storeTransaction(APIstub, txid, transaction), the error being dropped
\* (line 425).
storeTransactionWithFault(s, txid, transaction, fault) ==
    IF fault = "puttx" THEN s ELSE storeTransaction(s, txid, transaction)

\* transferUTXO when one store operation fails.  A failed scan is returned as
\* shim.Error (lines 357-359, 373-375); the errors of DelState, storeUTXO and
\* storeTransaction are not looked at, and the invocation goes on to
\* shim.Success (line 427).
transferUTXOWithFault(s, txid, addrFrom, addrTo, amountText, sel, fault) ==
    IF fault = "scan"
    THEN [ok |-> FALSE, store |-> s, inputs |-> <<>>, outputs |-> <<>>,
          removed |-> <<>>, currValue |-> Num(0)]
    ELSE [ok |-> TRUE,
          store |-> storeTransactionWithFault(
                        StoreNewUTXOsWithFault(
                            DelAllWithFault(s, sel.keys, fault), txid,
                            makeUTXO(txid, "1", amountText, addrTo, "out"),
                            ChangeUTXO(txid, addrFrom, sel.currValue,
                                       ParseFloat(amountText)),
                            fault),
                        txid,
                        makeTransaction(txid, sel.inputs,
                            TransferOutputs(txid, addrFrom, addrTo, amountText,
                                            sel.currValue)),
                        fault),
          inputs |-> sel.inputs,
          outputs |-> TransferOutputs(txid, addrFrom, addrTo, amountText, sel.currValue),
          removed |-> sel.keys, currValue |-> sel.currValue]

\* ------------------------------------------------------------- queries
Listing(entries) == [i \in 1..Len(entries) |-> [Key |-> entries[i].Key, Record |-> entries[i].Value]]

IsUTXOEntry(e) == ContainsSep(e.Key)

IsTransactionEntry(e) == ~ContainsSep(e.Key)

getAllUTXO(s) == Listing(SelectSeq(GetStateByRange(s), IsUTXOEntry))

getAllTransaction(s) == Listing(SelectSeq(GetStateByRange(s), IsTransactionEntry))

\* A slip in queryUTXOByAddr: the ownership check left out of the loop.
queryUTXOByAddrUnfiltered(s, address) ==
    Listing(SelectSeq(GetStateByRange(s), LAMBDA e : ContainsSep(e.Key)))

queryUTXOByAddr(s, address) ==
    Listing(SelectSeq(GetStateByRange(s),
                LAMBDA e : ContainsSep(e.Key)
                           /\ checkUTXOOwnerShip(UnmarshalUTXO(e.Value), address)))

queryUTXO(s, key) == GetState(s, key)

queryTransaction(s, key) == GetState(s, key)

\* ---------------------------------------------------------- the ledger
VARIABLES
    store,         \* the committed world state: key -> bytes
    transactions,  \* txid -> the Transaction handed to storeTransaction
    spent,         \* the keys deleted by successful transfers
    prev,          \* the world state before the last invocation
    last           \* the last invocation: function, arguments, response

vars == <<store, transactions, spent, prev, last>>

NoKey == TxKey(NoTx)

\* The record of an invocation; an operation fills in the fields it has.
Invocation(fn, ok) ==
    [fn |-> fn, ok |-> ok, txid |-> NoTx, from |-> "", to |-> "",
     amount |-> EmptyText, key |-> NoKey, found |-> FALSE, value |-> <<>>,
     list |-> <<>>, inputs |-> <<>>, outputs |-> <<>>, removed |-> <<>>,
     currValue |-> Num(0), fault |-> "none"]

RangeOf(seq) == {seq[i] : i \in 1..Len(seq)}

\* The keys a caller asks queryUTXO and queryTransaction for.
UTXOQueryKeys == {UtxoKey(t, i) : t \in TxIds, i \in {"1", "2"}}

TransactionQueryKeys == {TxKey(t) : t \in TxIds}

\* GetTxID: the id of an invocation is that of no committed transaction.  (An
\* invocation that returns an error is not committed.)
FreshTxID(txid) == txid \notin DOMAIN transactions

Init ==
    /\ store = EmptyStore
    /\ transactions = <<>>
    /\ spent = {}
    /\ prev = EmptyStore
    /\ last = Invocation("none", TRUE)

\* Invoke "init" under a fresh transaction id.
InitState(txid) ==
    /\ FreshTxID(txid)
    /\ prev' = store
    /\ store' = initStateStore(store, txid)
    /\ transactions' = [t \in DOMAIN transactions \cup {txid} |->
                           IF t = txid
                           THEN makeTransaction(txid, InitInputs(txid), InitOutputs(txid))
                           ELSE transactions[t]]
    /\ last' = [Invocation("init", TRUE) EXCEPT
                   !.txid = txid, !.inputs = InitInputs(txid),
                   !.outputs = InitOutputs(txid)]
    /\ UNCHANGED spent

\* Invoke "transferUTXO" under a fresh transaction id.
TransferUTXO(txid, addrFrom, addrTo, amountText) ==
    /\ FreshTxID(txid)
    /\ \E sel \in {Selection(store, addrFrom, ParseFloat(amountText))} :
       \E r \in {transferUTXO(store, txid, addrFrom, addrTo, amountText, sel)} :
       /\ prev' = store
       /\ store' = r.store
       /\ transactions' =
              IF r.ok
              THEN [t \in DOMAIN transactions \cup {txid} |->
                       IF t = txid THEN makeTransaction(txid, r.inputs, r.outputs)
                       ELSE transactions[t]]
              ELSE transactions
       /\ spent' = IF r.ok THEN spent \cup RangeOf(r.removed) ELSE spent
       /\ last' = [Invocation("transferUTXO", r.ok) EXCEPT
                      !.txid = txid, !.from = addrFrom, !.to = addrTo,
                      !.amount = amountText, !.inputs = r.inputs,
                      !.outputs = r.outputs, !.removed = r.removed,
                      !.currValue = r.currValue]

\* A slip in queryUTXO: the handler deletes the key it has read.
QueryUTXOAndDelete(key) ==
    /\ prev' = store
    /\ \E r \in {queryUTXO(store, key)} :
          last' = [Invocation("queryUTXO", TRUE) EXCEPT
                      !.key = key, !.found = r.found, !.value = r.value]
    /\ store' = DelState(store, key)
    /\ UNCHANGED <<transactions, spent>>

QueryUTXO(key) ==
    /\ prev' = store
    /\ \E r \in {queryUTXO(store, key)} :
          last' = [Invocation("queryUTXO", TRUE) EXCEPT
                      !.key = key, !.found = r.found, !.value = r.value]
    /\ UNCHANGED <<store, transactions, spent>>

QueryTransaction(key) ==
    /\ prev' = store
    /\ \E r \in {queryTransaction(store, key)} :
          last' = [Invocation("queryTransaction", TRUE) EXCEPT
                      !.key = key, !.found = r.found, !.value = r.value]
    /\ UNCHANGED <<store, transactions, spent>>

QueryUTXOByAddr(address) ==
    /\ prev' = store
    /\ last' = [Invocation("queryUTXOByAddr", TRUE) EXCEPT
                   !.from = address, !.list = queryUTXOByAddr(store, address)]
    /\ UNCHANGED <<store, transactions, spent>>

GetAllUTXO ==
    /\ prev' = store
    /\ last' = [Invocation("getAllUTXO", TRUE) EXCEPT !.list = getAllUTXO(store)]
    /\ UNCHANGED <<store, transactions, spent>>

GetAllTransaction ==
    /\ prev' = store
    /\ last' = [Invocation("getAllTransaction", TRUE) EXCEPT
                   !.list = getAllTransaction(store)]
    /\ UNCHANGED <<store, transactions, spent>>

Next ==
    \/ \E txid \in TxIds : InitState(txid)
    \/ \E txid \in TxIds, addrFrom \in Addresses, addrTo \in Addresses,
          amountText \in AmountArgs :
          TransferUTXO(txid, addrFrom, addrTo, amountText)
    \/ \E key \in UTXOQueryKeys : QueryUTXO(key)
    \/ \E key \in TransactionQueryKeys : QueryTransaction(key)
    \/ \E address \in Addresses : QueryUTXOByAddr(address)
    \/ GetAllUTXO
    \/ GetAllTransaction

Spec == Init /\ [][Next]_vars

\* Invoke "init" while one of its two PutState calls fails.
InitStateFault(txid, fault) ==
    /\ FreshTxID(txid)
    /\ fault \in {"put1", "puttx"}
    /\ \E r \in {initStateWithFault(store, txid, fault)} :
       /\ prev' = store
       /\ store' = r.store
       /\ last' = [Invocation("init", r.ok) EXCEPT !.txid = txid, !.fault = fault]
    /\ UNCHANGED <<transactions, spent>>

\* Invoke "transferUTXO" while one of its store operations fails: the scan at
\* any time, a delete if there is one, a write if the transfer gets that far.
TransferUTXOFault(txid, addrFrom, addrTo, amountText, fault) ==
    /\ FreshTxID(txid)
    /\ \E sel \in {Selection(store, addrFrom, ParseFloat(amountText))} :
       /\ fault # "scan" => ~NotEnough(sel.currValue, ParseFloat(amountText))
       /\ fault = "del" => Len(sel.keys) > 0
       /\ \E r \in {transferUTXOWithFault(store, txid, addrFrom, addrTo,
                                           amountText, sel, fault)} :
          /\ prev' = store
          /\ store' = r.store
          /\ transactions' =
                 IF r.ok
                 THEN [t \in DOMAIN transactions \cup {txid} |->
                          IF t = txid THEN makeTransaction(txid, r.inputs, r.outputs)
                          ELSE transactions[t]]
                 ELSE transactions
          /\ spent' = IF r.ok /\ fault # "del" THEN spent \cup RangeOf(r.removed)
                      ELSE spent
          /\ last' = [Invocation("transferUTXO", r.ok) EXCEPT
                         !.txid = txid, !.from = addrFrom, !.to = addrTo,
                         !.amount = amountText, !.inputs = r.inputs,
                         !.outputs = r.outputs, !.removed = r.removed,
                         !.currValue = r.currValue, !.fault = fault]

NextFault ==
    \/ Next
    \/ \E txid \in TxIds, fault \in StoreFaults : InitStateFault(txid, fault)
    \/ \E txid \in TxIds, addrFrom \in Addresses, addrTo \in Addresses,
          amountText \in AmountArgs, fault \in StoreFaults :
          TransferUTXOFault(txid, addrFrom, addrTo, amountText, fault)

\* The ledger over a store whose operations may fail.
SpecFault == Init /\ [][NextFault]_vars

\* -------------------------------------------------------------- claims
\* Two floats are equal: never when either is NaN.
FEq(a, b) == ~a.nan /\ ~b.nan /\ a.v = b.v

RECURSIVE SumFrom(_, _)
SumFrom(utxos, i) ==
    IF i > Len(utxos) THEN Num(0)
    ELSE FAdd(ParseFloat(utxos[i].Amount), SumFrom(utxos, i + 1))

\* The sum of the amounts of a list of UTXO structs.
SumAmounts(utxos) == SumFrom(utxos, 1)

\* The sum of the amounts of the records of a listing.
RECURSIVE SumListingFrom(_, _)
SumListingFrom(list, i) ==
    IF i > Len(list) THEN Num(0)
    ELSE FAdd(ParseFloat(UnmarshalUTXO(list[i].Record).Amount),
              SumListingFrom(list, i + 1))

\* The total of the live UTXOs spendable by an address: of the records
\* queryUTXOByAddr lists for it.
SpendableTotal(s, address) == SumListingFrom(queryUTXOByAddr(s, address), 1)

\* The UTXO-shaped keys of a store.
UTXOKeys(s) == {k \in DOMAIN s : ContainsSep(k)}

\* The UTXO-shaped keys of a store whose record names the address.
OwnedKeys(s, address) == {k \in UTXOKeys(s) : UnmarshalUTXO(s[k]).Address = address}

\* C1: every transferUTXO that returns success has outputs whose amounts sum
\* to the sum of the amounts of its inputs.
C1_Conservation ==
    (last.fn = "transferUTXO" /\ last.ok)
        => FEq(SumAmounts(last.outputs), SumAmounts(last.inputs))

\* No transfer of the code as written ever deletes a key: no scanned record
\* passes checkUTXOOwnerShip, its direction being lost in the store.
NoKeyEverSpent == spent = {}

\* C2: a key consumed as an input of a successful transferUTXO is absent from
\* the store ever after, is listed by queryUTXOByAddr for no address and is
\* selected by no later transfer.
C2_NoDoubleSpend ==
    \A k \in spent :
        /\ ~queryUTXO(store, k).found
        /\ \A address \in Addresses : k \notin
               {queryUTXOByAddr(store, address)[i].Key :
                   i \in 1..Len(queryUTXOByAddr(store, address))}
        /\ (last.fn = "transferUTXO" /\ k \in DOMAIN prev)
           \/ k \notin {last.removed[i] : i \in 1..Len(last.removed)}

\* C3: a transferUTXO that asks for more than the total of the live UTXOs
\* spendable by fromAddress returns an error and leaves the store as it was.
C3_InsufficientFundsNoMutation ==
    (last.fn = "transferUTXO"
       /\ FLess(SpendableTotal(prev, last.from), ParseFloat(last.amount)))
        => (~last.ok /\ store = prev)

\* C3 happens: User A, holding the genesis UTXO, asks for 60 and is refused.
C3_Witness ==
    /\ last.fn = "transferUTXO"
    /\ last.from = "User A"
    /\ last.amount = Dec(60000)
    /\ OwnedKeys(prev, "User A") # {}
    /\ FLess(SpendableTotal(prev, last.from), ParseFloat(last.amount))
    /\ ~last.ok
    /\ store = prev

\* C4: from the empty store, init and then transferUTXO("User A", "User B",
\* "20") succeeds, leaves User B a live UTXO of 20 and User A a live change
\* UTXO of 30, removes the genesis key, and records a transaction with one
\* input and two outputs under the id of the transfer.
C4_EndToEnd ==
    \A t0 \in TxIds :
        (/\ last.fn = "transferUTXO"
         /\ prev = initStateStore(EmptyStore, t0)
         /\ last.from = "User A"
         /\ last.to = "User B"
         /\ last.amount = Dec(20000))
        => /\ last.ok
           /\ \E k \in OwnedKeys(store, "User B") :
                  FEq(ParseFloat(UnmarshalUTXO(store[k]).Amount), Num(20000))
           /\ \E k \in OwnedKeys(store, "User A") :
                  FEq(ParseFloat(UnmarshalUTXO(store[k]).Amount), Num(30000))
           /\ UtxoKey(t0, "1") \notin DOMAIN store
           /\ TxKey(last.txid) \in DOMAIN store
           /\ "input" \in DOMAIN store[TxKey(last.txid)]
           /\ "output" \in DOMAIN store[TxKey(last.txid)]
           /\ Len(store[TxKey(last.txid)].input) = 1
           /\ Len(store[TxKey(last.txid)].output) = 2

\* The amount text is zero, negative or not a number.
RejectedAmount(amountText) ==
    \/ amountText.k \in {"bad", "nan", "empty"}
    \/ amountText.k \in {"dec", "f2"} /\ amountText.v <= 0

\* C5: transferUTXO rejects an amount that is zero, negative or not a number:
\* it returns an error and changes nothing in the store.
C5_RejectsBadAmount ==
    (last.fn = "transferUTXO" /\ RejectedAmount(last.amount))
        => (~last.ok /\ store = prev)

\* C6: a successful transferUTXO whose selected total equals the amount has
\* exactly one output and adds exactly one UTXO key, txid:1; a record under
\* txid:2 is written only when the total exceeds the amount, and is then the
\* change (txid, "2", total - amount, fromAddress).
C6_NoChangeOnExactAmount ==
    (last.fn = "transferUTXO" /\ last.ok)
        => /\ FEq(last.currValue, ParseFloat(last.amount))
              => /\ Len(last.outputs) = 1
                 /\ UTXOKeys(store) \ UTXOKeys(prev) = {UtxoKey(last.txid, "1")}
           /\ UTXOKeys(store) \ UTXOKeys(prev) # {UtxoKey(last.txid, "1")}
              => /\ FLess(ParseFloat(last.amount), last.currValue)
                 /\ UTXOKeys(store) \ UTXOKeys(prev)
                        = {UtxoKey(last.txid, "1"), UtxoKey(last.txid, "2")}
                 /\ store[UtxoKey(last.txid, "2")]
                        = MarshalUTXO(makeUTXO(last.txid, "2",
                              FormatFloat2(FSub(last.currValue, ParseFloat(last.amount))),
                              last.from, "out"))

\* The addresses a caller may ask about, and those a record may carry.
AnyAddress == Addresses \cup {"", "Coinbase"}

\* The direction a stored record carries, "" if it carries none.
StoredDirection(record) ==
    IF "inOrOut" \in DOMAIN record THEN record.inOrOut ELSE ""

\* C7: queryUTXOByAddr(A) lists no record of another address and no record
\* whose stored direction is in.
C7_OwnershipFilter ==
    \A address \in AnyAddress :
        \A i \in 1..Len(queryUTXOByAddr(store, address)) :
            /\ UnmarshalUTXO(queryUTXOByAddr(store, address)[i].Record).Address = address
            /\ StoredDirection(queryUTXOByAddr(store, address)[i].Record) # "in"

\* C7 happens: queryUTXOByAddr has answered for an address while the store
\* held records of that address and of another one.
C7_Witness ==
    /\ last.fn = "queryUTXOByAddr"
    /\ OwnedKeys(store, last.from) # {}
    /\ UTXOKeys(store) \ OwnedKeys(store, last.from) # {}
    /\ \A i \in 1..Len(last.list) :
           UnmarshalUTXO(last.list[i].Record).Address = last.from

\* The keys of a listing.
ListedKeys(list) == {list[i].Key : i \in 1..Len(list)}

\* C8: every UTXO record in the store is read back by the scan with the
\* direction out, passes the ownership check for its address (so a transfer
\* from that address may select it), and is listed by queryUTXOByAddr for
\* that address.
C8_PersistedIsSpendable ==
    \A k \in UTXOKeys(store) :
        /\ UnmarshalUTXO(store[k]).inOrOut = "out"
        /\ checkUTXOOwnerShip(UnmarshalUTXO(store[k]), UnmarshalUTXO(store[k]).Address)
        /\ k \in ListedKeys(queryUTXOByAddr(store, UnmarshalUTXO(store[k]).Address))

\* C9: from the empty store, after init under tx0, getAllUTXO lists exactly
\* one record, of amount 50 and address "User A", and queryTransaction(tx0)
\* returns a transaction with one coinbase input and one output.
C9_Genesis ==
    (last.fn = "init" /\ prev = EmptyStore)
        => /\ Len(getAllUTXO(store)) = 1
           /\ UnmarshalUTXO(getAllUTXO(store)[1].Record).Amount = Dec(50000)
           /\ UnmarshalUTXO(getAllUTXO(store)[1].Record).Address = "User A"
           /\ queryTransaction(store, TxKey(last.txid)).found
           /\ "input" \in DOMAIN queryTransaction(store, TxKey(last.txid)).value
           /\ "output" \in DOMAIN queryTransaction(store, TxKey(last.txid)).value
           /\ Len(queryTransaction(store, TxKey(last.txid)).value.input) = 1
           /\ queryTransaction(store, TxKey(last.txid)).value.input[1].index = MaxUint32Text
           /\ queryTransaction(store, TxKey(last.txid)).value.input[1].address = "Coinbase"
           /\ Len(queryTransaction(store, TxKey(last.txid)).value.output) = 1

\* The keys derived from the outputs, and from the inputs, of the
\* transactions recorded so far.
OutputKeys ==
    {UtxoKey(u.Txid, u.Index) :
        u \in UNION {RangeOf(transactions[t].outputs) : t \in DOMAIN transactions}}

InputKeys ==
    {UtxoKey(u.Txid, u.Index) :
        u \in UNION {RangeOf(transactions[t].inputs) : t \in DOMAIN transactions}}

\* C10: a UTXO key is in the store if and only if it is an output of a
\* recorded transaction and an input of none.
C10_LiveIffUnspentOutput == UTXOKeys(store) = OutputKeys \ InputKeys

\* C11: a transaction record, once written, stays in the store with the same
\* content through every later invocation, and no transfer selects a
\* transaction-shaped key for deletion.
C11_TransactionRecordsKept ==
    [][/\ \A k \in DOMAIN store :
              ~ContainsSep(k) => (k \in DOMAIN store' /\ store'[k] = store[k])
       /\ \A i \in 1..Len(last'.removed) : ContainsSep(last'.removed[i])]_vars

\* C11 happens: a successful init or transfer has changed a store that held
\* a transaction record, and the record is still there.
C11_Witness ==
    /\ last.fn \in {"init", "transferUTXO"}
    /\ last.ok
    /\ store # prev
    /\ \E k \in DOMAIN prev :
           ~ContainsSep(k) /\ k \in DOMAIN store /\ store[k] = prev[k]

\* C12: the record a successful transferUTXO stores under its transaction id
\* holds the id, the consumed UTXOs in order, each marked in, and the produced
\* UTXOs in order, each marked out, so that queryTransaction(id) returns them.
C12_TransactionRecordContent ==
    (last.fn = "transferUTXO" /\ last.ok)
        => /\ queryTransaction(store, TxKey(last.txid)).found
           /\ {"id", "input", "output"}
                  \subseteq DOMAIN queryTransaction(store, TxKey(last.txid)).value
           /\ queryTransaction(store, TxKey(last.txid)).value.id = last.txid
           /\ Len(queryTransaction(store, TxKey(last.txid)).value.input)
                  = Len(last.inputs)
           /\ Len(queryTransaction(store, TxKey(last.txid)).value.output)
                  = Len(last.outputs)
           /\ \A i \in 1..Len(last.inputs) : last.inputs[i].inOrOut = "in"
           /\ \A i \in 1..Len(last.outputs) : last.outputs[i].inOrOut = "out"

\* C13: an invocation of init or transferUTXO in which a store operation
\* failed never returns success.
C13_StoreFailureSurfaced == last.fault # "none" => ~last.ok

\* No scan of a reachable store selects anything, whoever asks and for
\* whatever amount.
NoKeySelectable ==
    \A address \in Addresses, amountText \in AmountArgs :
        Selection(store, address, ParseFloat(amountText)).keys = <<>>

\* The read-only operations.
QueryFns ==
    {"queryUTXO", "queryTransaction", "queryUTXOByAddr", "getAllUTXO",
     "getAllTransaction"}

\* C15: a query leaves the store as it was, and a queryUTXO or
\* queryTransaction that repeats the previous invocation returns the same
\* result.
C15_QueriesReadOnly ==
    [][last'.fn \in QueryFns
          => /\ store' = store
             /\ (/\ last.fn = last'.fn
                 /\ last.fn \in {"queryUTXO", "queryTransaction"}
                 /\ last.key = last'.key)
                => (last'.found = last.found /\ last'.value = last.value)]_vars

\* C15 happens: queryUTXO has found a record and the store is as before.
C15_Witness ==
    /\ last.fn = "queryUTXO"
    /\ last.found
    /\ last.value = store[last.key]
    /\ store = prev
    /\ store # EmptyStore

\* a >= b on floats: false when either is NaN.
FGeq(a, b) == ~a.nan /\ ~b.nan /\ a.v >= b.v

\* The total of the first n records of a listing.
RECURSIVE PrefixTotal(_, _)
PrefixTotal(list, n) ==
    IF n = 0 THEN Num(0)
    ELSE FAdd(PrefixTotal(list, n - 1),
              ParseFloat(UnmarshalUTXO(list[n].Record).Amount))

\* C16: the inputs of a successful transferUTXO are the shortest prefix, in
\* ascending key order, of the live UTXOs spendable by fromAddress whose
\* running total is >= the amount.
C16_FirstFitPrefix ==
    (last.fn = "transferUTXO" /\ last.ok)
        => /\ Len(last.removed) <= Len(queryUTXOByAddr(prev, last.from))
           /\ \A i \in 1..Len(last.removed) :
                  last.removed[i] = queryUTXOByAddr(prev, last.from)[i].Key
           /\ FGeq(PrefixTotal(queryUTXOByAddr(prev, last.from), Len(last.removed)),
                   ParseFloat(last.amount))
           /\ \A m \in 0..(Len(last.removed) - 1) :
                  ~FGeq(PrefixTotal(queryUTXOByAddr(prev, last.from), m),
                        ParseFloat(last.amount))

\* C17: every UTXO-shaped key of the store is transactionId + ":" +
\* outputIndex of the record stored under it, the index is not empty, and the
\* transaction id names a recorded transaction.
C17_KeyDerivedFromRecord ==
    \A k \in UTXOKeys(store) :
        /\ k = UtxoKey(UnmarshalUTXO(store[k]).Txid, UnmarshalUTXO(store[k]).Index)
        /\ UnmarshalUTXO(store[k]).Index # ""
        /\ TxKey(UnmarshalUTXO(store[k]).Txid) \in DOMAIN store

\* C18: a transferUTXO(from, to, amount) deletes only keys that held a UTXO
\* of address from, leaves every other key with its value, and adds only the
\* key of its transaction id and the keys of that transaction's outputs.
C18_TransferFrame ==
    last.fn = "transferUTXO"
        => /\ \A k \in DOMAIN prev \ DOMAIN store :
                  ContainsSep(k) /\ UnmarshalUTXO(prev[k]).Address = last.from
           /\ \A k \in DOMAIN prev \cap DOMAIN store : store[k] = prev[k]
           /\ DOMAIN store \ DOMAIN prev
                  \subseteq {TxKey(last.txid)}
                            \cup {UtxoKey(last.txid, last.outputs[i].Index) :
                                     i \in 1..Len(last.outputs)}

\* The number of coinbase transactions recorded: one for each init.
CoinbaseCount ==
    Cardinality({t \in DOMAIN transactions :
                    /\ Len(transactions[t].inputs) = 1
                    /\ transactions[t].inputs[1].Address = "Coinbase"})

RECURSIVE SumOfKeys(_, _)
SumOfKeys(s, ks) ==
    IF ks = {} THEN Num(0)
    ELSE LET k == CHOOSE x \in ks : TRUE
         IN FAdd(ParseFloat(UnmarshalUTXO(s[k]).Amount), SumOfKeys(s, ks \ {k}))

\* The sum of the amounts of the live UTXO records of a store.
LiveTotal(s) == SumOfKeys(s, UTXOKeys(s))

\* C19: with exactly one init, the live UTXO records sum to the genesis
\* amount 50: init on the empty store gives 50, and no transferUTXO,
\* successful or not, changes a sum of 50.
C19_ValueIsGenesisAmount ==
    /\ (last.fn = "init" /\ last.ok /\ prev = EmptyStore)
           => FEq(LiveTotal(store), Num(50000))
    /\ (last.fn = "transferUTXO" /\ CoinbaseCount = 1
          /\ FEq(LiveTotal(prev), Num(50000)))
           => FEq(LiveTotal(store), Num(50000))

\* C20: init is not guarded against re-invocation: under a fresh transaction
\* id it succeeds in any ledger state, adds the record of one more coinbase
\* transaction and one more live UTXO of amount 50 for "User A", and leaves
\* every existing key as it was.
C20_InitReinvocable ==
    last.fn = "init"
        => /\ last.ok
           /\ TxKey(last.txid) \notin DOMAIN prev
           /\ UtxoKey(last.txid, "1") \notin DOMAIN prev
           /\ DOMAIN store = DOMAIN prev \cup {TxKey(last.txid), UtxoKey(last.txid, "1")}
           /\ \A k \in DOMAIN prev : store[k] = prev[k]
           /\ store[TxKey(last.txid)]
                  = MarshalTransaction(makeTransaction(last.txid, last.inputs, last.outputs))
           /\ Len(last.inputs) = 1 /\ last.inputs[1].Address = "Coinbase"
           /\ UnmarshalUTXO(store[UtxoKey(last.txid, "1")]).Amount = Dec(50000)
           /\ UnmarshalUTXO(store[UtxoKey(last.txid, "1")]).Address = "User A"
           /\ Cardinality(UTXOKeys(store)) = Cardinality(UTXOKeys(prev)) + 1

\* init has acted on a ledger that already held the UTXO of an earlier init.
C20_Witness ==
    /\ last.fn = "init"
    /\ last.ok
    /\ \E t \in TxIds \ {last.txid} :
           /\ UtxoKey(t, "1") \in DOMAIN prev
           /\ prev[UtxoKey(t, "1")] = MarshalUTXO(InitOutputs(t)[1])
           /\ UtxoKey(t, "1") \in DOMAIN store

====
